---- MODULE Spec2Model ----
(***************************************************************************)
(* Swipe -> match lifecycle of BenchTalk-API (api_versions/v1).            *)
(*                                                                         *)
(* The tables `swipes` and `matches` are sets of rows.  Every request is   *)
(* served by a worker; a worker executes the SQL statements of its handler *)
(* one at a time (PostgreSQL READ COMMITTED: each statement sees what has  *)
(* been committed so far), so statements of concurrent requests interleave.*)
(*                                                                         *)
(* Meeting benches: suggest_benches_for_match(_auto), accept_bench and the *)
(* route POST /matches/{match_id}/suggest-benches work on the table        *)
(* `benches`; the answer of the map-data source (Overpass) is chosen from  *)
(* a small set of answers and failures.                                    *)
(***************************************************************************)
EXTENDS Integers, FiniteSets, Sequences, TLC

\* ---- bounds of the model ------------------------------------------------
NUsers == 3
NProcs == 2
MaxCalls == 2       \* requests received in a concurrent run
MaxRaceCalls == 3   \* requests received in a run of overlapping swipes
MaxMatchedCalls == 2 \* requests received by one worker once matches exist
MaxSeqCalls == 5    \* requests received in a run of one worker
MaxBenchCalls == 1  \* bench requests received after the first suggestion
MaxBenchSeqCalls == 2 \* the same, in a longer run
MaxElems == 2       \* elements in one answer of the map-data source
MaxLimit == 2       \* largest limit a caller asks for

Users == 1..NUsers
Procs == 1..NProcs
NoId == 0

VARIABLES
    swipes,     \* table swipes : rows [id, from_user_id, to_user_id, type]
    matches,    \* table matches: rows [id, user_one_id, user_two_id, is_active]
    swipeSeq,   \* last value handed out by the sequence of swipes.id
    matchSeq,   \* last value handed out by the sequence of matches.id
    pc,         \* per worker: the statement of create_swipe it executes next
    req,        \* per worker: the request it serves (or served last)
    loc,        \* per worker: local variables of create_swipe
    solo,       \* per worker: no other worker has acted since the request began
    hist,       \* the request completed last, with its response
    calls,      \* number of requests received so far
    users,      \* table users: per user its stored latitude and longitude
    benches,    \* table meeting_benches: rows [id, match_id, osm_id, ...]
    benchSeq,   \* last value handed out by the sequence of meeting_benches.id
    bpc,        \* per worker: where it stands in a bench operation
    breq,       \* per worker: the bench request it serves
    bloc,       \* per worker: local variables and session of the operation
    bhist,      \* the bench request completed last, with its result
    bcalls,     \* number of bench requests received so far
    finder      \* one call of find_benches_for_match: its arguments, the
                \* answer of the map-data source, and what it has computed

benchVars == <<users, benches, benchSeq, bpc, breq, bloc, bhist, bcalls>>

finderVars == <<finder>>

swipeVars == <<swipes, matches, swipeSeq, matchSeq, pc, req, loc, solo, hist, calls>>

vars == <<swipes, matches, swipeSeq, matchSeq, pc, req, loc, solo, hist, calls,
          users, benches, benchSeq, bpc, breq, bloc, bhist, bcalls, finder>>

\* ---- schema ---------------------------------------------------------------
unique_swipe_dropped(f, t) == TRUE

\* Swipe.__table_args__: UniqueConstraint('from_user_id', 'to_user_id')
unique_swipe(f, t) == \A s \in swipes : ~(s.from_user_id = f /\ s.to_user_id = t)

unique_match_dropped(one, two) == TRUE

\* Match.__table_args__: UniqueConstraint('user_one_id', 'user_two_id')
unique_match(one, two) ==
    \A m \in matches : ~(m.user_one_id = one /\ m.user_two_id = two)

\* ---- queries --------------------------------------------------------------
min(a, b) == IF a <= b THEN a ELSE b
max(a, b) == IF a <= b THEN b ELSE a

\* db.query(Swipe).filter_by(from_user_id=f, to_user_id=t).first()
SwipeRows(f, t) == {s \in swipes : s.from_user_id = f /\ s.to_user_id = t}

\* db.query(Swipe).filter_by(from_user_id=to, to_user_id=from, type='like').first()
reverse_swipe(f, t) == \E s \in SwipeRows(t, f) : s.type = "like"

\* get_match_between_users(user_id, match_id): the id of the row, or NoId.
\* The second parameter is compared with Match.id.
get_match_between_users(user_id, match_id) ==
    LET found == {m \in matches :
                     /\ m.id = match_id
                     /\ m.is_active
                     /\ (m.user_one_id = user_id \/ m.user_two_id = user_id)}
    IN IF found = {} THEN NoId ELSE (CHOOSE m \in found : TRUE).id

CallerOrderPair(f, t) == <<f, t>>

\* user_one, user_two = min(from_user_id, to_user_id), max(from_user_id, to_user_id)
CanonicalPair(f, t) == <<min(f, t), max(f, t)>>

NeverSameDisposition(existingType, swipe_type) == FALSE

\* existing.type == swipe_type
SameDisposition(existingType, swipe_type) == existingType = swipe_type

\* ---- what a request observes about its pair when it begins ----------------
PairRowsIn(M, a, b) == {m \in M : m.user_one_id = min(a, b) /\ m.user_two_id = max(a, b)}

PairRows(a, b) == PairRowsIn(matches, a, b)

SwipeTypeOf(f, t) ==
    IF SwipeRows(f, t) = {} THEN "none" ELSE (CHOOSE s \in SwipeRows(f, t) : TRUE).type

MatchStateIn(M, a, b) ==
    IF PairRowsIn(M, a, b) = {} THEN "none"
    ELSE IF \E m \in PairRowsIn(M, a, b) : m.is_active THEN "active" ELSE "inactive"

MatchStateOf(a, b) == MatchStateIn(matches, a, b)

MatchIdOf(a, b) ==
    IF PairRows(a, b) = {} THEN NoId ELSE (CHOOSE m \in PairRows(a, b) : TRUE).id

NoReq == [op |-> "none", from |-> NoId, to |-> NoId, type |-> "none"]

NoLoc == [existing |-> NoId, swipe_id |-> NoId]

NoHist == [op |-> "none", from |-> NoId, to |-> NoId, type |-> "none",
           ab |-> "none", m |-> "none", kind |-> "none",
           detail |-> "none", swipe_id |-> NoId, match_id |-> NoId, solo |-> FALSE]

Idle(p) == pc[p] = "idle"

Alone(p) == \A q \in Procs \ {p} : Idle(q)

Other(ty) == IF ty = "like" THEN "dislike" ELSE "like"

\* The response to request r, as the caller of the route sees it, together
\* with what the request found: ab, the type of its own swipe row before the
\* request, and m, the state of the pair's match before the completing step.
Response(r, ab, kind, detail, sid, mid, alone) ==
    [op |-> r.op, from |-> r.from, to |-> r.to, type |-> r.type,
     ab |-> ab, m |-> MatchStateOf(r.from, r.to), kind |-> kind, detail |-> detail,
     swipe_id |-> sid, match_id |-> mid, solo |-> alone]

\* a step of worker p ends the solitude of every other worker in flight
Disturb(p) == [q \in Procs |-> IF q # p /\ ~Idle(q) THEN FALSE ELSE solo[q]]

\* worker p answers its request
Return(p, kind, detail, sid, mid) ==
    /\ hist' = Response(req[p], IF loc[p].existing = NoId THEN "none" ELSE Other(req[p].type),
                        kind, detail, sid, mid, solo[p])
    /\ pc' = [pc EXCEPT ![p] = "idle"]
    /\ req' = [req EXCEPT ![p] = NoReq]
    /\ loc' = [loc EXCEPT ![p] = NoLoc]
    /\ solo' = [Disturb(p) EXCEPT ![p] = FALSE]

\* worker p goes on to the statement at label
Goto(p, label) ==
    /\ pc' = [pc EXCEPT ![p] = label]
    /\ solo' = Disturb(p)
    /\ UNCHANGED <<req, hist>>

\* ---- map data (bench_finder.py) -------------------------------------------
\* Python's None where a number is expected
None == -1

\* All points of the model lie on one meridian; a latitude is a whole number
\* of half-metres along it, so that _haversine is the difference of latitudes.
Meridian == 1

MaxLat == 8

\* bool(x) of an optional number: None and 0.0 are falsy
Truthy(x) == x # None /\ x # 0

Abs(x) == IF x < 0 THEN -x ELSE x

\* _haversine(lat1, lon1, lat2, lon2) for lon1 = lon2, in half-metres
haversine(lat1, lat2) == Abs(lat2 - lat1)

\* round(x, 3) of a length of n/per metres given in km: the nearest metre,
\* a tie going to the even one
round3(n, per) ==
    LET f == n \div per
        r == n % per
    IN IF 2 * r < per THEN f
       ELSE IF 2 * r > per THEN f + 1
       ELSE IF f % 2 = 0 THEN f ELSE f + 1

DigitChars == <<"0", "1", "2", "3", "4", "5", "6", "7", "8", "9">>

\* str(n) of a natural number: its decimal digits
RECURSIVE str(_)
str(n) == IF n < 10 THEN <<DigitChars[n + 1]>>
          ELSE str(n \div 10) \o <<DigitChars[(n % 10) + 1]>>

\* elements of an Overpass answer ("out center"): a node carries lat/lon, a
\* way carries center.lat/center.lon, and either may come without a position
node5 == [type |-> "node", id |-> 5, lat |-> 2, center |-> None]

way5 == [type |-> "way", id |-> 5, lat |-> None, center |-> 4]

node7 == [type |-> "node", id |-> 7, lat |-> 6, center |-> None]

OsmElements == {node5, way5, node7}

ElemSeqs ==
    UNION { {s \in [1..n -> OsmElements] : \A i, j \in 1..n : s[i] = s[j] => i = j}
            : n \in 0..MaxElems }

\* what the single GET on OVERPASS_URL can end in
Failures == {"timeout", "transport", "http_error", "bad_json", "not_object"}

Answers ==
    {[kind |-> k, elements |-> <<>>] : k \in Failures}
      \cup {[kind |-> "elements", elements |-> e] : e \in ElemSeqs}

NoAnswer == [kind |-> "none", elements |-> <<>>]

\* _query_overpass: Timeout, RequestException (raise_for_status included) and
\* ValueError (response.json()) are answered with []; a JSON body that is not
\* an object makes data.get raise AttributeError, which is not caught here
query_overpass(answer) ==
    IF answer.kind \in {"timeout", "transport", "http_error", "bad_json"}
    THEN [raised |-> FALSE, value |-> <<>>]
    ELSE IF answer.kind = "not_object"
    THEN [raised |-> TRUE, value |-> <<>>]
    ELSE [raised |-> FALSE, value |-> answer.elements]

\* b_lat = bench.get('lat') or bench.get('center', {}).get('lat')
b_lat(bench) == IF Truthy(bench.lat) THEN bench.lat ELSE bench.center

\* b_lon = bench.get('lon') or bench.get('center', {}).get('lon')
b_lon(bench) ==
    IF bench.lat # None THEN Meridian
    ELSE IF bench.center # None THEN Meridian ELSE None

\* the dict _rank_benches appends for a located bench
ranked_entry(bench, lat1, lat2) ==
    LET d1 == haversine(b_lat(bench), lat1)
        d2 == haversine(b_lat(bench), lat2)
        total_distance == d1 + d2
        distance_diff == Abs(d1 - d2)
    IN [osm_id |-> str(bench.id),
        osm_type |-> bench.type,
        lat |-> b_lat(bench),
        distance_user_a_km |-> round3(d1, 2),
        distance_user_b_km |-> round3(d2, 2),
        score |-> round3(2 * total_distance + distance_diff, 4)]

\* list.sort(key=lambda x: x['score']): stable, ascending
RECURSIVE sort_by_score(_)
sort_by_score(seq) ==
    IF seq = <<>> THEN <<>>
    ELSE LET front == sort_by_score(SubSeq(seq, 1, Len(seq) - 1))
             x == seq[Len(seq)]
             k == Cardinality({i \in 1..Len(front) : front[i].score <= x.score})
         IN SubSeq(front, 1, k) \o <<x>> \o SubSeq(front, k + 1, Len(front))

RECURSIVE located_entries(_, _, _)
located_entries(elements, lat1, lat2) ==
    IF elements = <<>> THEN <<>>
    ELSE LET rest == located_entries(Tail(elements), lat1, lat2)
         IN IF ~(Truthy(b_lat(Head(elements))) /\ Truthy(b_lon(Head(elements))))
            THEN rest
            ELSE <<ranked_entry(Head(elements), lat1, lat2)>> \o rest

rank_benches_unsorted(elements, lat1, lat2) == located_entries(elements, lat1, lat2)

\* _rank_benches
rank_benches(elements, lat1, lat2) == sort_by_score(located_entries(elements, lat1, lat2))

find_benches_for_match_unguarded(answer, lat1, lat2, limit) ==
    LET q == query_overpass(answer)
        ranked == rank_benches(q.value, lat1, lat2)
    IN IF q.raised THEN [raised |-> TRUE, value |-> <<>>]
       ELSE IF q.value = <<>> THEN [raised |-> FALSE, value |-> <<>>]
       ELSE [raised |-> FALSE, value |-> SubSeq(ranked, 1, min(limit, Len(ranked)))]

\* find_benches_for_match: ranked[:limit]; `except Exception: return []`
find_benches_for_match(answer, lat1, lat2, limit) ==
    LET q == query_overpass(answer)
        ranked == rank_benches(q.value, lat1, lat2)
    IN IF q.raised THEN [raised |-> FALSE, value |-> <<>>]
       ELSE IF q.value = <<>> THEN [raised |-> FALSE, value |-> <<>>]
       ELSE [raised |-> FALSE, value |-> SubSeq(ranked, 1, min(limit, Len(ranked)))]

calculate_search_zone_uncapped(lat1, lat2) ==
    [center_x2 |-> lat1 + lat2,
     radius_meters |-> (haversine(lat1, lat2) \div 4) + 1000]

\* _calculate_search_zone: the midpoint (twice its latitude, to stay whole)
\* and int((distance_km / 2 + 1.0) * 1000), at most max_radius_m = 5000.
\* A distance of d half-metres is d / 2000 km.
calculate_search_zone(lat1, lat2) ==
    [center_x2 |-> lat1 + lat2,
     radius_meters |-> min((haversine(lat1, lat2) \div 4) + 1000, 5000)]

NoZone == [center_x2 |-> 0, radius_meters |-> 0]

NoFinder == [pc |-> "none", lat1 |-> None, lat2 |-> None, limit |-> 0,
             answer |-> NoAnswer, zone |-> NoZone, benches |-> <<>>,
             ranked |-> <<>>, result |-> <<>>]

\* ---- meeting_benches (crud.py) ----------------------------------------------
BenchRowsNeverFound(B, match_id, osm_id) == {}

\* db.query(MeetingBench).filter_by(match_id=match_id, osm_id=osm_id)
BenchRowsIn(B, match_id, osm_id) ==
    {b \in B : b.match_id = match_id /\ b.osm_id = osm_id}

\* db.query(MeetingBench).filter_by(match_id=match_id)
MatchBenches(B, match_id) == {b \in B : b.match_id = match_id}

\* get_accepted_bench: the rows of the match with is_accepted
get_accepted_bench(B, match_id) == {b \in MatchBenches(B, match_id) : b.is_accepted}

NoCoords == [latitude |-> None, longitude |-> None]

NoBReq == [op |-> "none", match_id |-> NoId, user_id |-> NoId, bench_id |-> NoId,
           lat1 |-> None, lat2 |-> None, limit |-> 0]

\* tx: the worker's session holds a transaction open; found: the match row
\* was found; asked: the map-data source was queried
NoBLoc == [tx |-> FALSE, found |-> FALSE, asked |-> FALSE, answer |-> NoAnswer,
           benches |-> <<>>, pending |-> <<>>]

NoBHist == [op |-> "none", match_id |-> NoId, user_id |-> NoId, bench_id |-> NoId,
            lat1 |-> None, lat2 |-> None, limit |-> 0,
            found |-> FALSE, asked |-> FALSE, answer |-> NoAnswer,
            kind |-> "none", result |-> <<>>, success |-> FALSE,
            inserted |-> 0]

BIdle(p) == bpc[p] = "idle"

\* the bench tables and workers at rest
BenchRest ==
    /\ benches = {}
    /\ benchSeq = 0
    /\ bpc = [p \in Procs |-> "idle"]
    /\ breq = [p \in Procs |-> NoBReq]
    /\ bloc = [p \in Procs |-> NoBLoc]
    /\ bhist = NoBHist
    /\ bcalls = 0

Init ==
    /\ swipes = {}
    /\ matches = {}
    /\ swipeSeq = 0
    /\ matchSeq = 0
    /\ pc = [p \in Procs |-> "idle"]
    /\ req = [p \in Procs |-> NoReq]
    /\ loc = [p \in Procs |-> NoLoc]
    /\ solo = [p \in Procs |-> FALSE]
    /\ hist = NoHist
    /\ calls = 0
    /\ users = [u \in Users |-> NoCoords]
    /\ BenchRest
    /\ finder = NoFinder

\* ---- POST /users/{user_id}/swipe ------------------------------------------
\* swipe_user, lines 175-183: the request is refused before create_swipe is
\* called (both users exist; "Cannot swipe yourself")
SwipeRefused(p, f, t, ty) ==
    /\ Idle(p)
    /\ f = t
    /\ calls' = calls + 1
    /\ hist' = Response([op |-> "swipe", from |-> f, to |-> t, type |-> ty],
                        SwipeTypeOf(f, t), "e400", "self", NoId, NoId, Alone(p))
    /\ solo' = Disturb(p)
    /\ UNCHANGED <<swipes, matches, swipeSeq, matchSeq, pc, req, loc>>

\* create_swipe, lines 226-234: look the swipe up; the same disposition
\* returns (existing, None) at once
SwipeBegin(p, f, t, ty) ==
    /\ Idle(p)
    /\ f # t
    /\ calls' = calls + 1
    /\ LET rows == SwipeRows(f, t)
           existing == IF rows = {} THEN NoId ELSE (CHOOSE s \in rows : TRUE).id
       IN IF existing # NoId /\ SameDisposition(SwipeTypeOf(f, t), ty)
          THEN /\ hist' = Response([op |-> "swipe", from |-> f, to |-> t, type |-> ty],
                                   ty, "ok", "none", existing, NoId, Alone(p))
               /\ solo' = Disturb(p)
               /\ UNCHANGED <<pc, req, loc>>
          ELSE /\ pc' = [pc EXCEPT ![p] = "swipe_write"]
               /\ req' = [req EXCEPT ![p] = [op |-> "swipe", from |-> f, to |-> t, type |-> ty]]
               /\ loc' = [loc EXCEPT ![p] = [existing |-> existing, swipe_id |-> existing]]
               /\ solo' = [Disturb(p) EXCEPT ![p] = Alone(p)]
               /\ UNCHANGED hist
    /\ UNCHANGED <<swipes, matches, swipeSeq, matchSeq>>

\* create_swipe, lines 236-246: overwrite the type, or insert the row; commit
SwipeWrite(p) ==
    /\ pc[p] = "swipe_write"
    /\ LET next == IF req[p].type = "like" THEN "reverse_query" ELSE "dislike_lookup"
       IN IF loc[p].existing # NoId
          THEN /\ swipes' = {IF s.id = loc[p].existing
                             THEN [s EXCEPT !.type = req[p].type] ELSE s : s \in swipes}
               /\ Goto(p, next)
               /\ UNCHANGED <<swipeSeq, loc>>
          ELSE /\ swipeSeq' = swipeSeq + 1
               /\ IF unique_swipe(req[p].from, req[p].to)
                  THEN /\ swipes' = swipes \cup
                             {[id |-> swipeSeq + 1, from_user_id |-> req[p].from,
                               to_user_id |-> req[p].to, type |-> req[p].type]}
                       /\ loc' = [loc EXCEPT ![p].swipe_id = swipeSeq + 1]
                       /\ Goto(p, next)
                  ELSE \* IntegrityError leaves create_swipe; swipe_user answers 500
                       /\ Return(p, "e500", "unique_swipe", NoId, NoId)
                       /\ UNCHANGED swipes
    /\ UNCHANGED <<matches, matchSeq, calls>>

\* create_swipe, lines 249-254: is there a like in the other direction
ReverseQuery(p) ==
    /\ pc[p] = "reverse_query"
    /\ IF reverse_swipe(req[p].from, req[p].to)
       THEN Goto(p, "match_lookup") /\ UNCHANGED loc
       ELSE Return(p, "ok", "none", loc[p].swipe_id, NoId)
    /\ UNCHANGED <<swipes, matches, swipeSeq, matchSeq, calls>>

\* create_swipe, lines 256-258: match_obj = get_match_between_users(from, to)
MatchLookup(p) ==
    /\ pc[p] = "match_lookup"
    /\ LET match_obj == get_match_between_users(req[p].from, req[p].to)
       IN IF match_obj = NoId
          THEN Goto(p, "match_insert") /\ UNCHANGED loc
          ELSE Return(p, "ok", "none", loc[p].swipe_id, match_obj)
    /\ UNCHANGED <<swipes, matches, swipeSeq, matchSeq, calls>>

MatchInsertRollingBack(p) ==
    /\ pc[p] = "match_insert"
    /\ matchSeq' = matchSeq + 1
    /\ LET pair == CanonicalPair(req[p].from, req[p].to)
       IN IF unique_match(pair[1], pair[2])
          THEN /\ matches' = matches \cup
                     {[id |-> matchSeq + 1, user_one_id |-> pair[1],
                       user_two_id |-> pair[2], is_active |-> TRUE]}
               /\ swipes' = swipes
               /\ Return(p, "ok", "none", loc[p].swipe_id, matchSeq + 1)
          ELSE /\ matches' = matches
               /\ swipes' = IF loc[p].existing = NoId
                            THEN {s \in swipes : s.id # loc[p].swipe_id}
                            ELSE {IF s.id = loc[p].existing
                                  THEN [s EXCEPT !.type = Other(req[p].type)] ELSE s
                                  : s \in swipes}
               /\ Return(p, "e500", "unique_match", NoId, NoId)
    /\ UNCHANGED <<swipeSeq, calls>>

\* create_swipe, lines 259-263: insert the Match row and commit
MatchInsert(p) ==
    /\ pc[p] = "match_insert"
    /\ matchSeq' = matchSeq + 1
    /\ LET pair == CanonicalPair(req[p].from, req[p].to)
       IN IF unique_match(pair[1], pair[2])
          THEN /\ matches' = matches \cup
                     {[id |-> matchSeq + 1, user_one_id |-> pair[1],
                       user_two_id |-> pair[2], is_active |-> TRUE]}
               /\ Return(p, "ok", "none", loc[p].swipe_id, matchSeq + 1)
          ELSE \* IntegrityError leaves create_swipe; swipe_user answers 500
               /\ matches' = matches
               /\ Return(p, "e500", "unique_match", NoId, NoId)
    /\ UNCHANGED <<swipes, swipeSeq, calls>>

\* create_swipe, lines 265-270: the row that get_match_between_users returns
\* belongs to the session that get_match_between_users has closed; setting
\* is_active on it and committing db writes nothing to the table.
DislikeLookup(p) ==
    /\ pc[p] = "dislike_lookup"
    /\ LET match_obj == get_match_between_users(req[p].from, req[p].to)
       IN IF match_obj # NoId
          THEN matches' = matches     \* match_obj.is_active = False; db.commit()
          ELSE matches' = matches
    /\ Return(p, "ok", "none", loc[p].swipe_id, NoId)
    /\ UNCHANGED <<swipes, swipeSeq, matchSeq, calls>>

\* ---- DELETE /users/{user_id}/matches/{other_user_id} ----------------------
\* the row of the canonical pair, whatever its is_active
unmatch_row(user_id, other_user_id) ==
    {m \in matches : /\ m.user_one_id = min(user_id, other_user_id)
                     /\ m.user_two_id = max(user_id, other_user_id)}

UnmatchDeleting(p, u, o) ==
    /\ Idle(p)
    /\ calls' = calls + 1
    /\ solo' = Disturb(p)
    /\ matches' = matches \ unmatch_row(u, o)
    /\ hist' = Response([op |-> "unmatch", from |-> u, to |-> o, type |-> "none"],
                        "none", "ok204", "none", NoId, NoId, Alone(p))
    /\ UNCHANGED <<swipes, swipeSeq, matchSeq, pc, req, loc>>

\* unmatch + unmatch_user: one query and one update by primary key in a single
\* transaction; no other statement sets is_active to TRUE or deletes a row.
Unmatch(p, u, o) ==
    /\ Idle(p)
    /\ calls' = calls + 1
    /\ solo' = Disturb(p)
    /\ LET r == [op |-> "unmatch", from |-> u, to |-> o, type |-> "none"]
           found == unmatch_row(u, o)
       IN IF found # {}
          THEN /\ matches' = {IF m \in found THEN [m EXCEPT !.is_active = FALSE] ELSE m
                              : m \in matches}
               /\ hist' = Response(r, "none", "ok204", "none", NoId, NoId, Alone(p))
          ELSE /\ matches' = matches
               /\ hist' = Response(r, "none", "e404", "Match not found", NoId, NoId, Alone(p))
    /\ UNCHANGED <<swipes, swipeSeq, matchSeq, pc, req, loc>>

\* the requests a worker may receive
SwipeRequest(p) ==
    \E f \in Users, t \in Users, ty \in {"like", "dislike"} :
        SwipeRefused(p, f, t, ty) \/ SwipeBegin(p, f, t, ty)

UnmatchRequest(p) == \E u \in Users, o \in Users : Unmatch(p, u, o)

\* the statements of a request in flight
Step(p) ==
    \/ SwipeWrite(p)
    \/ ReverseQuery(p)
    \/ MatchLookup(p)
    \/ MatchInsert(p)
    \/ DislikeLookup(p)

\* concurrent workers
Next ==
    \/ calls < MaxCalls /\ (\E p \in Procs : SwipeRequest(p)) /\ UNCHANGED <<benchVars, finderVars>>
    \/ calls < MaxCalls /\ (\E p \in Procs : UnmatchRequest(p)) /\ UNCHANGED <<benchVars, finderVars>>
    \/ (\E p \in Procs : Step(p)) /\ UNCHANGED <<benchVars, finderVars>>

Spec == Init /\ [][Next]_vars

\* one worker, one request after the other
SeqNext ==
    \/ calls < MaxSeqCalls /\ SwipeRequest(1) /\ UNCHANGED <<benchVars, finderVars>>
    \/ calls < MaxSeqCalls /\ UnmatchRequest(1) /\ UNCHANGED <<benchVars, finderVars>>
    \/ Step(1) /\ UNCHANGED <<benchVars, finderVars>>

SeqSpec == Init /\ [][SeqNext]_vars

\* Users 1 and 2, and 1 and 3, have liked each other and are matched; since
\* then user 2 may have turned the like into a dislike (which leaves the Match
\* as it is, see DislikeLookup), and the pair may have been unmatched.
MatchedInit ==
    /\ \E d \in {"like", "dislike"} :
          swipes = { [id |-> 1, from_user_id |-> 1, to_user_id |-> 2, type |-> "like"],
                     [id |-> 2, from_user_id |-> 2, to_user_id |-> 1, type |-> d],
                     [id |-> 3, from_user_id |-> 1, to_user_id |-> 3, type |-> "like"],
                     [id |-> 4, from_user_id |-> 3, to_user_id |-> 1, type |-> "like"] }
    /\ \E a \in BOOLEAN :
          matches = { [id |-> 1, user_one_id |-> 1, user_two_id |-> 2, is_active |-> a],
                      [id |-> 2, user_one_id |-> 1, user_two_id |-> 3, is_active |-> TRUE] }
    /\ swipeSeq = 4
    /\ matchSeq = 2
    /\ pc = [p \in Procs |-> "idle"]
    /\ req = [p \in Procs |-> NoReq]
    /\ loc = [p \in Procs |-> NoLoc]
    /\ solo = [p \in Procs |-> FALSE]
    /\ hist = NoHist
    /\ calls = 0
    /\ users = [u \in Users |-> NoCoords]
    /\ BenchRest
    /\ finder = NoFinder

\* one worker serving matched users
MatchedNext ==
    \/ calls < MaxMatchedCalls /\ SwipeRequest(1) /\ UNCHANGED <<benchVars, finderVars>>
    \/ calls < MaxMatchedCalls /\ UnmatchRequest(1) /\ UNCHANGED <<benchVars, finderVars>>
    \/ Step(1) /\ UNCHANGED <<benchVars, finderVars>>

MatchedSpec == MatchedInit /\ [][MatchedNext]_vars

\* concurrent workers, one request more: a swipe may overlap a swipe that
\* follows a completed one
RaceNext ==
    \/ calls < MaxRaceCalls /\ (\E p \in Procs : SwipeRequest(p)) /\ UNCHANGED <<benchVars, finderVars>>
    \/ (\E p \in Procs : Step(p)) /\ UNCHANGED <<benchVars, finderVars>>

RaceSpec == Init /\ [][RaceNext]_vars

TypeOK ==
    /\ swipeSeq \in Nat /\ matchSeq \in Nat /\ calls \in 0..max(MaxCalls, MaxSeqCalls)
    /\ \A p \in Procs : pc[p] \in {"idle", "swipe_write", "reverse_query",
                                   "match_lookup", "match_insert", "dislike_lookup"}

\* ==== meeting benches =======================================================
\* coordinates a user may have stored through PUT /users/{user_id}/location
UserCoords ==
    { NoCoords,
      [latitude |-> 0, longitude |-> Meridian],
      [latitude |-> 2, longitude |-> Meridian] }

\* latitudes a caller passes to suggest_benches_for_match for the first user;
\* the second user stands at MaxLat
Lats == {0, MaxLat}

\* the row of MeetingBench(...) for entry b, inserted with primary key id
new_bench(id, match_id, b) ==
    [id |-> id, match_id |-> match_id, osm_id |-> b.osm_id, osm_type |-> b.osm_type,
     latitude |-> b.lat, distance_user_a_km |-> b.distance_user_a_km,
     distance_user_b_km |-> b.distance_user_b_km, score |-> b.score,
     is_accepted |-> FALSE]

\* The first suggestion of a run: suggest_benches_for_match(2, 0, .., MaxLat, ..,
\* limit=2) on the empty table, the map-data source answering with node 5 and
\* node 7: its result, the rows it stores and its response.
FirstAnswer == [kind |-> "elements", elements |-> <<node5, node7>>]

FirstFound == find_benches_for_match(FirstAnswer, 0, MaxLat, 2).value

SuggestedOnce == {new_bench(i, 2, FirstFound[i]) : i \in 1..Len(FirstFound)}

FirstResponse ==
    [op |-> "suggest", match_id |-> 2, user_id |-> NoId, bench_id |-> NoId,
     lat1 |-> 0, lat2 |-> MaxLat, limit |-> 2,
     found |-> TRUE, asked |-> TRUE, answer |-> FirstAnswer,
     kind |-> "ok", result |-> FirstFound, success |-> FALSE,
     inserted |-> Len(FirstFound)]

\* A database in which users 1 and 2, and users 1 and 3, have liked each
\* other (Match 1 and Match 2); Match 1 may have been ended by unmatch, and
\* benches have been suggested once for Match 2.
BenchInit ==
    /\ swipes = { [id |-> 1, from_user_id |-> 1, to_user_id |-> 2, type |-> "like"],
                  [id |-> 2, from_user_id |-> 2, to_user_id |-> 1, type |-> "like"],
                  [id |-> 3, from_user_id |-> 1, to_user_id |-> 3, type |-> "like"],
                  [id |-> 4, from_user_id |-> 3, to_user_id |-> 1, type |-> "like"] }
    /\ \E a \in BOOLEAN :
          matches = { [id |-> 1, user_one_id |-> 1, user_two_id |-> 2, is_active |-> a],
                      [id |-> 2, user_one_id |-> 1, user_two_id |-> 3, is_active |-> TRUE] }
    /\ swipeSeq = 4
    /\ matchSeq = 2
    /\ pc = [p \in Procs |-> "idle"]
    /\ req = [p \in Procs |-> NoReq]
    /\ loc = [p \in Procs |-> NoLoc]
    /\ solo = [p \in Procs |-> FALSE]
    /\ hist = NoHist
    /\ calls = 0
    /\ \E c \in UserCoords :
          users = [u \in Users |-> IF u = 1 THEN c
                                   ELSE [latitude |-> MaxLat, longitude |-> Meridian]]
    /\ benches = SuggestedOnce
    /\ benchSeq = Cardinality(SuggestedOnce)
    /\ bpc = [p \in Procs |-> "idle"]
    /\ breq = [p \in Procs |-> NoBReq]
    /\ bloc = [p \in Procs |-> NoBLoc]
    /\ bhist = FirstResponse
    /\ bcalls = 0
    /\ finder = NoFinder

\* What the caller of request r gets, with what the operation did (l: its
\* locals at the end).  suggest_meeting_benches, lines 326-339: the 404 for an
\* empty list is raised inside the try and is caught, like any exception of
\* the call, by `except Exception`, which answers 500.  The same holds for
\* search_benches_between_locations, lines 404-416.
BResponse(r, l, kind, result, success, inserted) ==
    LET failed == /\ r.op \in {"route_suggest", "route_search"}
                  /\ (kind = "raise" \/ result = <<>>)
    IN [op |-> r.op, match_id |-> r.match_id, user_id |-> r.user_id,
        bench_id |-> r.bench_id, lat1 |-> r.lat1, lat2 |-> r.lat2, limit |-> r.limit,
        found |-> l.found, asked |-> l.asked, answer |-> l.answer,
        kind |-> IF failed THEN "e500" ELSE kind,
        result |-> IF failed THEN <<>> ELSE result,
        success |-> success, inserted |-> inserted]

\* worker p answers at once, without having left "idle"
BAnswer(p, r, found, kind, result, success) ==
    /\ bhist' = BResponse(r, [NoBLoc EXCEPT !.found = found], kind, result, success, 0)
    /\ UNCHANGED <<bpc, breq, bloc>>

\* worker p answers the request it has in flight; its session is closed
BReturn(p, l, kind, result, inserted) ==
    /\ bhist' = BResponse(breq[p], l, kind, result, FALSE, inserted)
    /\ bpc' = [bpc EXCEPT ![p] = "idle"]
    /\ breq' = [breq EXCEPT ![p] = NoBReq]
    /\ bloc' = [bloc EXCEPT ![p] = NoBLoc]

\* worker p waits for the map-data source inside `with create_session() as db`
BCallOut(p, r) ==
    /\ bpc' = [bpc EXCEPT ![p] = "overpass"]
    /\ breq' = [breq EXCEPT ![p] = r]
    /\ bloc' = [bloc EXCEPT ![p] = [NoBLoc EXCEPT !.tx = TRUE, !.found = TRUE]]
    /\ UNCHANGED bhist

\* suggest_benches_for_match, lines 416-428: the match query opens the
\* transaction of the session; an unknown match returns []
suggest_benches_for_match(p, r) ==
    IF {m \in matches : m.id = r.match_id} = {}
    THEN BAnswer(p, r, FALSE, "ok", <<>>, FALSE)
    ELSE BCallOut(p, r)

SuggestBegin(p, match_id, lat1, lat2, limit) ==
    /\ BIdle(p)
    /\ bcalls' = bcalls + 1
    /\ suggest_benches_for_match(p, [op |-> "suggest", match_id |-> match_id,
                                     user_id |-> NoId, bench_id |-> NoId,
                                     lat1 |-> lat1, lat2 |-> lat2, limit |-> limit])
    /\ UNCHANGED <<users, benches, benchSeq>>

has_coordinates_unchecked(user_a, user_b) == TRUE

\* all([user_a.latitude, user_a.longitude, user_b.latitude, user_b.longitude])
has_coordinates(user_a, user_b) ==
    /\ Truthy(user_a.latitude) /\ Truthy(user_a.longitude)
    /\ Truthy(user_b.latitude) /\ Truthy(user_b.longitude)

\* suggest_benches_for_match_auto, lines 536-569: the match must be active;
\* its users exist (foreign keys, and no operation deletes a user); both must
\* have coordinates
AutoBegin(p, match_id, limit) ==
    /\ BIdle(p)
    /\ bcalls' = bcalls + 1
    /\ LET r == [op |-> "suggest_auto", match_id |-> match_id,
                 user_id |-> NoId, bench_id |-> NoId,
                 lat1 |-> None, lat2 |-> None, limit |-> limit]
           match == {m \in matches : m.id = match_id /\ m.is_active}
       IN IF match = {}
          THEN BAnswer(p, r, FALSE, "ok", <<>>, FALSE)
          ELSE LET m == CHOOSE m \in match : TRUE
                   user_a == users[m.user_one_id]
                   user_b == users[m.user_two_id]
               IN IF ~has_coordinates(user_a, user_b)
                  THEN BAnswer(p, r, TRUE, "ok", <<>>, FALSE)
                  ELSE BCallOut(p, [r EXCEPT !.lat1 = user_a.latitude,
                                             !.lat2 = user_b.latitude])
    /\ UNCHANGED <<users, benches, benchSeq>>

\* lines 422-456 (and 563-597): the map-data source answers; an empty list
\* returns []; otherwise the loop looks every bench up in the table and adds
\* the missing ones to the session.  autoflush is off: a row added by this
\* loop is not found by a later query of the same loop.
Overpass(p, answer) ==
    /\ bpc[p] = "overpass"
    /\ LET got == find_benches_for_match(answer, breq[p].lat1, breq[p].lat2, breq[p].limit)
           l == [bloc[p] EXCEPT !.asked = TRUE, !.answer = answer]
           Missing(b) == BenchRowsIn(benches, breq[p].match_id, b.osm_id) = {}
       IN IF got.raised
          THEN BReturn(p, l, "raise", <<>>, 0)
          ELSE IF got.value = <<>>
          THEN BReturn(p, l, "ok", <<>>, 0)
          ELSE /\ bpc' = [bpc EXCEPT ![p] = "commit"]
               /\ bloc' = [bloc EXCEPT ![p] =
                              [l EXCEPT !.benches = got.value,
                                        !.pending = SelectSeq(got.value, Missing)]]
               /\ UNCHANGED <<breq, bhist>>
    /\ UNCHANGED <<users, benches, benchSeq, bcalls>>

CommitReplacing(p) ==
    /\ bpc[p] = "commit"
    /\ LET found == bloc[p].benches
       IN /\ benches' = (benches \ MatchBenches(benches, breq[p].match_id)) \cup
                {new_bench(benchSeq + i, breq[p].match_id, found[i]) : i \in 1..Len(found)}
          /\ benchSeq' = benchSeq + Len(found)
          /\ BReturn(p, bloc[p], "ok", bloc[p].benches, Len(found))
    /\ UNCHANGED <<users, bcalls>>

\* lines 458-460 (and 599-601): db.commit() inserts the added rows; return benches
Commit(p) ==
    /\ bpc[p] = "commit"
    /\ LET pending == bloc[p].pending
       IN /\ benches' = benches \cup
                {new_bench(benchSeq + i, breq[p].match_id, pending[i]) : i \in 1..Len(pending)}
          /\ benchSeq' = benchSeq + Len(pending)
          /\ BReturn(p, bloc[p], "ok", bloc[p].benches, Len(pending))
    /\ UNCHANGED <<users, bcalls>>

accept_target_any_match(B, match_id, bench_id) == {b \in B : b.id = bench_id}

\* db.query(MeetingBench).filter_by(id=bench_id, match_id=match_id)
accept_target(B, match_id, bench_id) ==
    {b \in B : b.id = bench_id /\ b.match_id = match_id}

\* accept_bench: one query and one update in a single transaction
Accept(p, match_id, bench_id) ==
    /\ BIdle(p)
    /\ bcalls' = bcalls + 1
    /\ LET r == [op |-> "accept", match_id |-> match_id, user_id |-> NoId,
                 bench_id |-> bench_id, lat1 |-> None, lat2 |-> None, limit |-> 0]
           bench == accept_target(benches, match_id, bench_id)
       IN IF bench # {}
          THEN /\ benches' = {IF b \in bench THEN [b EXCEPT !.is_accepted = TRUE] ELSE b
                              : b \in benches}
               /\ BAnswer(p, r, TRUE, "ok", <<>>, TRUE)
          ELSE /\ benches' = benches
               /\ BAnswer(p, r, FALSE, "ok", <<>>, FALSE)
    /\ UNCHANGED <<users, benchSeq>>

\* def suggest_benches_for_match(self, match_id, lat1, lon1, lat2, lon2, limit=10)
suggest_benches_for_match_params == <<"match_id", "lat1", "lon1", "lat2", "lon2", "limit">>

suggest_benches_for_match_defaults == {"limit"}

\* a call with nargs positional arguments binds every parameter that has no default
Binds(params, defaults, nargs) ==
    /\ nargs <= Len(params)
    /\ \A i \in (nargs + 1)..Len(params) : params[i] \in defaults

\* suggest_meeting_benches, line 327: db.suggest_benches_for_match(match_id, limit)
suggest_meeting_benches_args(match_id, limit) == <<match_id, limit>>

\* POST /matches/{match_id}/suggest-benches
RouteSuggest(p, match_id, user_id, limit) ==
    /\ BIdle(p)
    /\ bcalls' = bcalls + 1
    /\ LET args == suggest_meeting_benches_args(match_id, limit)
           r == [op |-> "route_suggest", match_id |-> match_id, user_id |-> user_id,
                 bench_id |-> NoId, lat1 |-> None, lat2 |-> None, limit |-> limit]
       IN IF get_match_between_users(user_id, match_id) = NoId
          THEN BAnswer(p, r, FALSE, "e404", <<>>, FALSE)
          ELSE IF ~Binds(suggest_benches_for_match_params,
                         suggest_benches_for_match_defaults, Len(args))
          THEN \* TypeError: missing required positional arguments
               BAnswer(p, r, TRUE, "raise", <<>>, FALSE)
          ELSE suggest_benches_for_match(p, [r EXCEPT !.match_id = args[1],
                                                      !.lat1 = args[2], !.lat2 = args[4]])
    /\ UNCHANGED <<users, benches, benchSeq>>

\* GET /benches/search: find_benches_for_match on the caller's coordinates,
\* without a database session
RouteSearch(p, lat1, lat2, limit, answer) ==
    /\ BIdle(p)
    /\ bcalls' = bcalls + 1
    /\ LET r == [op |-> "route_search", match_id |-> NoId, user_id |-> NoId,
                 bench_id |-> NoId, lat1 |-> lat1, lat2 |-> lat2, limit |-> limit]
           got == find_benches_for_match(answer, lat1, lat2, limit)
       IN bhist' = BResponse(r, [NoBLoc EXCEPT !.asked = TRUE, !.answer = answer],
                             IF got.raised THEN "raise" ELSE "ok", got.value, FALSE, 0)
    /\ UNCHANGED <<users, benches, benchSeq, bpc, breq, bloc>>

\* ids a caller may name: those handed out so far and the next one
MatchIds == 1..(matchSeq + 1)

BenchIds == 1..(benchSeq + 1)

SuggestRequest(p) ==
    \E match_id \in MatchIds, lat1 \in Lats, limit \in 1..MaxLimit :
        SuggestBegin(p, match_id, lat1, MaxLat, limit)

AutoRequest(p) ==
    \E match_id \in MatchIds, limit \in 1..MaxLimit : AutoBegin(p, match_id, limit)

AcceptRequest(p) ==
    \E match_id \in MatchIds, bench_id \in BenchIds : Accept(p, match_id, bench_id)

RouteSuggestRequest(p) ==
    \E match_id \in MatchIds, user_id \in Users, limit \in 1..MaxLimit :
        RouteSuggest(p, match_id, user_id, limit)

SearchRequest(p) ==
    \E lat1 \in Lats, limit \in 1..MaxLimit, answer \in Answers :
        RouteSearch(p, lat1, MaxLat, limit, answer)

BenchStep(p) ==
    \/ \E answer \in Answers : Overpass(p, answer)
    \/ Commit(p)

\* one worker, one bench request after the other
BenchNext ==
    \/ bcalls < MaxBenchCalls /\ SuggestRequest(1) /\ UNCHANGED <<swipeVars, finderVars>>
    \/ bcalls < MaxBenchCalls /\ AutoRequest(1) /\ UNCHANGED <<swipeVars, finderVars>>
    \/ bcalls < MaxBenchCalls /\ AcceptRequest(1) /\ UNCHANGED <<swipeVars, finderVars>>
    \/ bcalls < MaxBenchCalls /\ RouteSuggestRequest(1) /\ UNCHANGED <<swipeVars, finderVars>>
    \/ BenchStep(1) /\ UNCHANGED <<swipeVars, finderVars>>

BenchSpec == BenchInit /\ [][BenchNext]_vars

\* the same worker in a longer run, in which it also serves /benches/search
BenchSeqNext ==
    \/ bcalls < MaxBenchSeqCalls /\ SuggestRequest(1) /\ UNCHANGED <<swipeVars, finderVars>>
    \/ bcalls < MaxBenchSeqCalls /\ AutoRequest(1) /\ UNCHANGED <<swipeVars, finderVars>>
    \/ bcalls < MaxBenchSeqCalls /\ AcceptRequest(1) /\ UNCHANGED <<swipeVars, finderVars>>
    \/ bcalls < MaxBenchSeqCalls /\ RouteSuggestRequest(1) /\ UNCHANGED <<swipeVars, finderVars>>
    \/ bcalls < MaxBenchSeqCalls /\ SearchRequest(1) /\ UNCHANGED <<swipeVars, finderVars>>
    \/ BenchStep(1) /\ UNCHANGED <<swipeVars, finderVars>>

BenchSeqSpec == BenchInit /\ [][BenchSeqNext]_vars

BenchTypeOK ==
    /\ benchSeq \in Nat /\ bcalls \in 0..max(MaxBenchCalls, MaxBenchSeqCalls)
    /\ \A p \in Procs : bpc[p] \in {"idle", "overpass", "commit"}
    /\ \A b \in benches : b.id \in 1..benchSeq

\* ==== find_benches_for_match, step by step =================================
node8 == [type |-> "node", id |-> 8, lat |-> 3, center |-> None]

\* an element that came without a position
node9 == [type |-> "node", id |-> 9, lat |-> None, center |-> None]

FinderElements == OsmElements \cup {node8, node9}

FinderSeqs ==
    UNION { {s \in [1..n -> FinderElements] : \A i, j \in 1..n : s[i] = s[j] => i = j}
            : n \in 0..MaxElems }

FinderAnswers ==
    {[kind |-> k, elements |-> <<>>] : k \in {"timeout", "not_object"}}
      \cup {[kind |-> "elements", elements |-> e] : e \in FinderSeqs}

\* latitudes of the second user, the first standing at 0: a few metres away,
\* and around and beyond the 8 km at which the radius reaches max_radius_m
FinderLats == {7, MaxLat, 15996, 16000, 16003, 40000}

\* a call find_benches_for_match(0, .., lat2, .., limit) about to begin
FinderInit ==
    /\ swipes = {}
    /\ matches = {}
    /\ swipeSeq = 0
    /\ matchSeq = 0
    /\ pc = [p \in Procs |-> "idle"]
    /\ req = [p \in Procs |-> NoReq]
    /\ loc = [p \in Procs |-> NoLoc]
    /\ solo = [p \in Procs |-> FALSE]
    /\ hist = NoHist
    /\ calls = 0
    /\ users = [u \in Users |-> NoCoords]
    /\ BenchRest
    /\ \E lat2 \in FinderLats, limit \in 1..MaxLimit, answer \in FinderAnswers :
          finder = [NoFinder EXCEPT !.pc = "zone", !.lat1 = 0, !.lat2 = lat2,
                                    !.limit = limit, !.answer = answer]

\* lines 40-42: the search zone
FinderZone ==
    /\ finder.pc = "zone"
    /\ finder' = [finder EXCEPT !.pc = "query",
                                !.zone = calculate_search_zone(finder.lat1, finder.lat2)]

\* lines 49-53: the request; an exception or an empty list ends the call with []
FinderQuery ==
    /\ finder.pc = "query"
    /\ LET q == query_overpass(finder.answer)
       IN IF q.raised \/ q.value = <<>>
          THEN finder' = [finder EXCEPT !.pc = "done"]
          ELSE finder' = [finder EXCEPT !.pc = "rank", !.benches = q.value]

\* line 57: ranked = _rank_benches(benches, lat1, lon1, lat2, lon2)
FinderRank ==
    /\ finder.pc = "rank"
    /\ finder' = [finder EXCEPT !.pc = "cut",
                                !.ranked = rank_benches(finder.benches, finder.lat1, finder.lat2)]

\* line 59: return ranked[:limit]
FinderCut ==
    /\ finder.pc = "cut"
    /\ finder' = [finder EXCEPT !.pc = "done",
                                !.result = SubSeq(finder.ranked, 1,
                                                  min(finder.limit, Len(finder.ranked)))]

FinderNext ==
    \/ FinderZone /\ UNCHANGED <<swipeVars, benchVars>>
    \/ FinderQuery /\ UNCHANGED <<swipeVars, benchVars>>
    \/ FinderRank /\ UNCHANGED <<swipeVars, benchVars>>
    \/ FinderCut /\ UNCHANGED <<swipeVars, benchVars>>

FinderSpec == FinderInit /\ [][FinderNext]_vars

\* ---- vocabulary of the properties ----------------------------------------
\* this step answers a request; hist' is the request with its response
Completed ==
    \/ \E p \in Procs : pc[p] # "idle" /\ pc'[p] = "idle"
    \/ calls' # calls /\ pc' = pc

\* the request answered by this step is recordSwipe(f -> t, ty), served alone
SwipeDone(ty) ==
    /\ Completed
    /\ hist'.op = "swipe" /\ hist'.type = ty /\ hist'.from # hist'.to
    /\ hist'.solo

\* the request answered last was recordSwipe(f -> t, ty), served alone
LastWasSwipe(f, t, ty) ==
    /\ hist.op = "swipe" /\ hist.from = f /\ hist.to = t /\ hist.type = ty
    /\ hist.solo

ActiveRowsIn(M, a, b) == {m \in PairRowsIn(M, a, b) : m.is_active}

AllIdle == \A p \in Procs : Idle(p)

\* ---- C1 ------------------------------------------------------------------
\* C1: for users A, B without swipes between them, like(A,B) returns no match
\* and the like(B,A) that follows returns a Match of the pair {A,B} and leaves
\* exactly one active Match row for the pair (in either order of the calls).
C1_MutualLikeMatches ==
    [][ /\ (SwipeDone("like") /\ hist'.ab = "none"
              /\ SwipeTypeOf(hist'.to, hist'.from) = "none")
           => (hist'.kind = "ok" /\ hist'.match_id = NoId)
        /\ (SwipeDone("like") /\ hist'.ab = "none"
              /\ LastWasSwipe(hist'.to, hist'.from, "like")
              /\ hist.ab = "none" /\ hist.kind = "ok" /\ hist.match_id = NoId)
           => /\ hist'.kind = "ok"
              /\ \E m \in PairRowsIn(matches', hist'.from, hist'.to) : m.id = hist'.match_id
              /\ Cardinality(ActiveRowsIn(matches', hist'.from, hist'.to)) = 1
      ]_vars

\* ---- C2 ------------------------------------------------------------------
\* C2: a dislike recorded while the pair has an active Match leaves the pair's
\* Match row inactive, so that no active Match is found for the pair.
C2_DislikeDeactivates ==
    [][ (SwipeDone("dislike") /\ hist'.m = "active")
        => MatchStateIn(matches', hist'.from, hist'.to) = "inactive" ]_vars

\* ---- C3 ------------------------------------------------------------------
\* C3: at most one Match row per unordered pair of users, in every reachable
\* state of concurrent recordSwipe and unmatch requests.
C3_OneMatchRowPerPair ==
    \A m1 \in matches, m2 \in matches :
        {m1.user_one_id, m1.user_two_id} = {m2.user_one_id, m2.user_two_id} => m1 = m2

\* two likes of one pair raced: the second insert was attempted and refused
C3_Witness ==
    /\ hist.op = "swipe" /\ hist.type = "like" /\ ~hist.solo
    /\ hist.kind = "e500" /\ hist.detail = "unique_match"
    /\ Cardinality(PairRows(hist.from, hist.to)) = 1

\* ---- C4 ------------------------------------------------------------------
\* C4: a like whose Match insert is refused by the uniqueness constraint,
\* because a concurrent request has just inserted the pair's row, completes
\* normally and reports the existing match; it does not end in an error.
C4_RaceLoserSucceeds ==
    [][ \A p \in Procs :
          (/\ pc[p] = "match_insert" /\ pc'[p] = "idle"
           /\ ~solo[p]
           /\ PairRows(req[p].from, req[p].to) # {})
          => (/\ hist'.kind = "ok"
              /\ hist'.match_id = MatchIdOf(req[p].from, req[p].to)) ]_vars

\* ---- C5 ------------------------------------------------------------------
\* C5: after dislike(A,B) was recorded on an active Match, a like(A,B) that
\* follows (B's like still stored) completes without error and leaves exactly
\* one active Match for the pair.
C5_RelikeAfterDislike ==
    [][ (/\ SwipeDone("like")
         /\ LastWasSwipe(hist'.from, hist'.to, "dislike")
         /\ hist.kind = "ok" /\ hist.m = "active"
         /\ SwipeTypeOf(hist'.to, hist'.from) = "like")
        => (/\ hist'.kind = "ok"
            /\ Cardinality(ActiveRowsIn(matches', hist'.from, hist'.to)) = 1) ]_vars

\* ---- C6 ------------------------------------------------------------------
\* the request received by this step
Received ==
    IF pc' = pc THEN [op |-> hist'.op, from |-> hist'.from, to |-> hist'.to,
                      type |-> hist'.type]
    ELSE req'[CHOOSE p \in Procs : pc'[p] # pc[p]]

\* C6: recordSwipe(a, t, d) received right after an identical recordSwipe has
\* been answered changes neither table, keeps the single SwipeIntent of the
\* ordered pair and returns that swipe with no match.
C6_RepeatIsNoOp ==
    [][ (/\ calls' = calls + 1 /\ AllIdle
         /\ hist.op = "swipe" /\ hist.solo /\ hist.kind \in {"ok", "e500"}
         /\ Received = [op |-> "swipe", from |-> hist.from, to |-> hist.to,
                        type |-> hist.type])
        => (/\ pc' = pc
            /\ swipes' = swipes /\ matches' = matches
            /\ Cardinality(SwipeRows(hist.from, hist.to)) = 1
            /\ hist'.kind = "ok" /\ hist'.match_id = NoId
            /\ \E s \in SwipeRows(hist.from, hist.to) : s.id = hist'.swipe_id) ]_vars

\* a swipe request found its own disposition stored and was answered at once
C6_Witness ==
    /\ hist.op = "swipe" /\ hist.kind = "ok" /\ hist.solo
    /\ hist.ab = hist.type
    /\ hist.match_id = NoId
    /\ \E s \in SwipeRows(hist.from, hist.to) : s.id = hist.swipe_id /\ s.type = hist.type

\* ---- C7 ------------------------------------------------------------------
\* C7: at most one SwipeIntent per ordered pair in every reachable state, and
\* no step changes the identity of a stored SwipeIntent: a row keeps its id,
\* actor and target; only its disposition is overwritten.
C7_OneSwipePerOrderedPair ==
    /\ [](\A s1 \in swipes, s2 \in swipes :
            (s1.from_user_id = s2.from_user_id /\ s1.to_user_id = s2.to_user_id)
            => s1 = s2)
    /\ [][ /\ \A s \in swipes : \E s2 \in swipes' :
                /\ s2.id = s.id
                /\ s2.from_user_id = s.from_user_id
                /\ s2.to_user_id = s.to_user_id
           /\ \A p \in Procs :
                (/\ pc[p] = "swipe_write" /\ pc'[p] # "swipe_write"
                 /\ loc[p].existing # NoId)
                => Cardinality(swipes') = Cardinality(swipes) ]_vars

\* a stored disposition has been overwritten by the opposite one
C7_Witness ==
    /\ hist.op = "swipe" /\ hist.kind = "ok"
    /\ hist.ab = Other(hist.type)
    /\ \E s \in SwipeRows(hist.from, hist.to) : s.id = hist.swipe_id /\ s.type = hist.type

\* ---- C8 ------------------------------------------------------------------
\* C8: every Match row has user_one_id < user_two_id, whoever recorded the
\* swipe that created it.
C8_CanonicalOrder ==
    \A m \in matches : m.user_one_id < m.user_two_id

\* the larger id recorded the like that created the Match
C8_Witness ==
    /\ hist.op = "swipe" /\ hist.kind = "ok" /\ hist.from > hist.to
    /\ hist.m = "none"
    /\ \E m \in PairRows(hist.from, hist.to) : m.id = hist.match_id

\* ---- C9 ------------------------------------------------------------------
\* C9: unmatch answers success exactly when the pair had an active Match
\* before the call and the call deactivated it.
C9_UnmatchReportsDeactivation ==
    [][ (Completed /\ hist'.op = "unmatch" /\ hist'.solo)
        => ((hist'.kind = "ok204")
            <=> (/\ MatchStateOf(hist'.from, hist'.to) = "active"
                 /\ MatchStateIn(matches', hist'.from, hist'.to) = "inactive")) ]_vars

\* ---- C10 -----------------------------------------------------------------
\* C10: once the pair's Match is inactive, like(A,B) followed by like(B,A)
\* completes without error and leaves a new active Match row for the pair,
\* with a new id, next to the old inactive row.
C10_RelikeRecreatesMatch ==
    [][ (/\ SwipeDone("like")
         /\ LastWasSwipe(hist'.to, hist'.from, "like")
         /\ hist.kind = "ok" /\ hist.m = "inactive"
         /\ MatchStateOf(hist'.from, hist'.to) = "inactive")
        => (/\ hist'.kind = "ok"
            /\ \E new \in ActiveRowsIn(matches', hist'.from, hist'.to) :
                  /\ new.id = hist'.match_id
                  /\ \A old \in matches : old.id # new.id
            /\ \E old \in PairRowsIn(matches', hist'.from, hist'.to) : ~old.is_active) ]_vars

\* ---- C11 -----------------------------------------------------------------
\* C11: swipe_user reports a match (is_match, match_id) only for the call
\* that created the Match row; a swipe recorded while a Match already exists
\* is told apart from it.
C11_IsMatchMeansCreated ==
    [][ (Completed /\ hist'.op = "swipe" /\ hist'.kind = "ok"
           /\ hist'.match_id # NoId)
        => \E m \in matches' \ matches : m.id = hist'.match_id ]_vars

\* ---- vocabulary of the bench properties ------------------------------------
\* this step answers a bench request; bhist' is the request with its result
BCompleted ==
    \/ \E p \in Procs : bpc[p] # "idle" /\ bpc'[p] = "idle"
    \/ bcalls' # bcalls /\ bpc' = bpc

\* ---- C12 -----------------------------------------------------------------
\* C12: in every state every match has at most one suggestion with
\* is_accepted; accepting a second suggestion of a match revokes the first.
C12_AtMostOneAccepted ==
    \A m \in MatchIds : Cardinality(get_accepted_bench(benches, m)) <= 1

\* ---- C13 -----------------------------------------------------------------
\* C13: accept_bench(match_id, bench_id) returns False and changes no row when
\* no suggestion with that id belongs to the match; otherwise it returns True
\* and the suggestion is accepted.
C13_AcceptOnlyOwnSuggestion ==
    [][ (BCompleted /\ bhist'.op = "accept")
        => IF \E b \in benches : b.id = bhist'.bench_id /\ b.match_id = bhist'.match_id
           THEN /\ bhist'.success
                /\ \E b \in benches' : /\ b.id = bhist'.bench_id
                                       /\ b.match_id = bhist'.match_id
                                       /\ b.is_accepted
           ELSE /\ ~bhist'.success
                /\ benches' = benches ]_vars

\* an accept that named a suggestion of another match has been refused
C13_Witness ==
    /\ bhist.op = "accept" /\ ~bhist.success
    /\ \E b \in benches : b.id = bhist.bench_id /\ b.match_id # bhist.match_id
    /\ \A b \in benches : ~b.is_accepted

\* ---- C14 -----------------------------------------------------------------
\* C14: a suggest that follows a suggest for the same match with the same
\* coordinates and limit, the map-data source answering the same both times,
\* leaves the number of stored suggestions of the match as it was.
C14_ResuggestAddsNoRow ==
    [][ (/\ BCompleted
         /\ bhist.op = "suggest" /\ bhist.kind = "ok"
         /\ bhist'.op = "suggest"
         /\ bhist'.match_id = bhist.match_id
         /\ bhist'.lat1 = bhist.lat1 /\ bhist'.lat2 = bhist.lat2
         /\ bhist'.limit = bhist.limit
         /\ bhist'.answer = bhist.answer)
        => /\ Cardinality(MatchBenches(benches', bhist'.match_id))
                = Cardinality(MatchBenches(benches, bhist'.match_id))
           /\ Cardinality(benches') = Cardinality(benches) ]_vars

\* the first suggestion of the run has been repeated and has returned the
\* same benches without storing one
C14_Witness ==
    /\ bcalls > 0
    /\ bhist = [FirstResponse EXCEPT !.inserted = 0]
    /\ bhist.result # <<>>

\* ---- C15 -----------------------------------------------------------------
\* C15: no two stored suggestions share (match_id, osm_id), also when one
\* answer of the map-data source holds a node and a way with the same id.
C15_UniqueSuggestion ==
    \A b1, b2 \in benches :
        (b1.match_id = b2.match_id /\ b1.osm_id = b2.osm_id) => b1 = b2

\* ---- C16 -----------------------------------------------------------------
\* C16: while the request to the map-data source is in flight, the worker's
\* session holds no transaction open.
C16_NoTransactionWhileWaiting ==
    \A p \in Procs : bpc[p] = "overpass" => ~bloc[p].tx

\* ---- C17 -----------------------------------------------------------------
\* C17: whatever the request to the map-data source ends in (timeout,
\* transport failure, error status, malformed body, empty result), suggest
\* returns an empty list, raises nothing and stores no row.
C17_SourceFailureIsEmpty ==
    [][ (/\ BCompleted
         /\ bhist'.op = "suggest" /\ bhist'.asked
         /\ \/ bhist'.answer.kind \in Failures
            \/ bhist'.answer = [kind |-> "elements", elements |-> <<>>])
        => /\ bhist'.kind = "ok"
           /\ bhist'.result = <<>>
           /\ bhist'.inserted = 0
           /\ benches' = benches ]_vars

\* a suggest whose request was answered with a body that is no JSON object
\* has returned the empty list
C17_Witness ==
    /\ bhist.op = "suggest" /\ bhist.asked
    /\ bhist.answer.kind = "not_object"
    /\ bhist.kind = "ok" /\ bhist.result = <<>>

\* ---- C18 -----------------------------------------------------------------
\* C18: suggest_benches_for_match_auto returns an empty list, sends no request
\* to the map-data source and stores nothing when the match is missing or
\* inactive or one of its users has no stored latitude or longitude.
C18_AutoFailsSoftly ==
    [][ (/\ BCompleted
         /\ bhist'.op = "suggest_auto"
         /\ \A m \in matches :
               (m.id = bhist'.match_id /\ m.is_active)
               => \E u \in {m.user_one_id, m.user_two_id} :
                     users[u].latitude = None \/ users[u].longitude = None)
        => /\ bhist'.kind = "ok"
           /\ bhist'.result = <<>>
           /\ ~bhist'.asked
           /\ bhist'.inserted = 0
           /\ benches' = benches ]_vars

\* an automatic suggestion for an active match whose first user has no
\* coordinates has returned the empty list
C18_Witness ==
    /\ bhist.op = "suggest_auto" /\ bhist.found /\ ~bhist.asked
    /\ bhist.result = <<>>
    /\ \E m \in matches : /\ m.id = bhist.match_id /\ m.is_active
                          /\ users[m.user_one_id] = NoCoords

\* ---- C19 -----------------------------------------------------------------
\* C19: the result of suggest for a match id that does not exist differs from
\* the result of suggest for an existing match for which the map-data source
\* had no candidates.
C19_UnknownMatchIsDistinct ==
    [][ (/\ BCompleted
         /\ bhist.op = "suggest" /\ bhist.found /\ bhist.asked
         /\ bhist.answer = [kind |-> "elements", elements |-> <<>>]
         /\ bhist'.op = "suggest" /\ ~bhist'.found)
        => <<bhist'.kind, bhist'.result>> # <<bhist.kind, bhist.result>> ]_vars

\* ---- C20 -----------------------------------------------------------------
\* C20: POST /matches/{match_id}/suggest-benches, called by a member of the
\* active match, calls the suggestion operation with arguments it accepts and
\* does not answer with the generic failure.
C20_RouteCallsSuggest ==
    [][ (/\ BCompleted
         /\ bhist'.op = "route_suggest"
         /\ get_match_between_users(bhist'.user_id, bhist'.match_id) # NoId)
        => bhist'.kind # "e500" ]_vars

\* ---- C21 -----------------------------------------------------------------
\* C21: at GET /benches/search and POST /matches/{match_id}/suggest-benches,
\* a map-data source that has no bench to offer is answered with something
\* else than the generic failure (500) used for unexpected errors.
C21_EmptyIsNotFailure ==
    [][ (/\ BCompleted
         /\ bhist'.op \in {"route_search", "route_suggest"}
         /\ bhist'.asked
         /\ bhist'.answer = [kind |-> "elements", elements |-> <<>>])
        => bhist'.kind # "e500" ]_vars

\* ---- C22 -----------------------------------------------------------------
\* C22: suggest stores one row for each returned bench whose osm_id has no row
\* yet for the match, and nothing else: every row stored before, of this match
\* or another, is left as it was.
C22_InsertsOnlyMissing ==
    [][ (BCompleted /\ bhist'.op = "suggest" /\ bhist'.kind = "ok")
        => LET mid == bhist'.match_id
               res == bhist'.result
               missing == {i \in 1..Len(res) :
                             ~\E b \in benches : b.match_id = mid /\ b.osm_id = res[i].osm_id}
               added == benches' \ benches
           IN /\ benches \subseteq benches'
              /\ Cardinality(added) = Cardinality(missing)
              /\ \A b \in added :
                    /\ b.match_id = mid /\ ~b.is_accepted
                    /\ \E i \in missing : /\ b.osm_id = res[i].osm_id
                                          /\ b.osm_type = res[i].osm_type
                                          /\ b.score = res[i].score
              /\ \A i \in missing :
                    \E b \in added : /\ b.osm_id = res[i].osm_id
                                     /\ b.osm_type = res[i].osm_type ]_vars

\* a suggest for Match 1 has stored its benches next to the untouched
\* suggestions of Match 2
C22_Witness ==
    /\ bhist.op = "suggest" /\ bhist.match_id = 1 /\ bhist.inserted > 0
    /\ bhist.inserted = Len(bhist.result)
    /\ SuggestedOnce \subseteq benches
    /\ Cardinality(MatchBenches(benches, 1)) = bhist.inserted

\* ---- the ranking and the search zone ---------------------------------------
\* where the element behind a ranked entry stood in the answer of the source
InputIndex(entry) ==
    CHOOSE k \in 1..Len(finder.benches) :
        /\ str(finder.benches[k].id) = entry.osm_id
        /\ finder.benches[k].type = entry.osm_type

FinderRanked == finder.pc \in {"cut", "done"} /\ finder.benches # <<>>

\* the score before round(score, 3), in quarter-metres, recomputed from the
\* position the entry reports
ExactScore(entry) ==
    LET a == Abs(entry.lat - finder.lat1)
        b == Abs(entry.lat - finder.lat2)
    IN 2 * (a + b) + Abs(a - b)

\* C23: the ranking is in ascending order of the score it returns, entries of
\* equal score keep the order in which the source listed them, the ranking is
\* never longer than the source's list, and the result is its first `limit`
\* entries.
C23_RankedAscendingStable ==
    FinderRanked =>
        /\ Len(finder.ranked) <= Len(finder.benches)
        /\ \A i, j \in 1..Len(finder.ranked) :
              i < j =>
                /\ finder.ranked[i].score <= finder.ranked[j].score
                /\ finder.ranked[i].score = finder.ranked[j].score
                     => InputIndex(finder.ranked[i]) < InputIndex(finder.ranked[j])
        /\ finder.pc = "done" =>
              /\ Len(finder.result) <= finder.limit
              /\ Len(finder.result) <= Len(finder.ranked)
              /\ \A i \in 1..Len(finder.result) : finder.result[i] = finder.ranked[i]
              /\ Len(finder.result) < finder.limit => finder.result = finder.ranked

\* the source listed the farther-from-fair bench last, it is ranked first, and
\* the limit cut the other off
C23_Witness ==
    /\ finder.pc = "done"
    /\ Len(finder.benches) = 2
    /\ Len(finder.ranked) = 2
    /\ InputIndex(finder.ranked[1]) = 2
    /\ finder.ranked[1].score < finder.ranked[2].score
    /\ finder.limit = 1
    /\ finder.result = <<finder.ranked[1]>>

\* C24: the returned order is the order of the exact scores: no entry comes
\* before one whose total distance plus half the fairness gap is smaller.
C24_OrderedByExactScore ==
    FinderRanked =>
        \A i, j \in 1..Len(finder.ranked) :
            i < j => ExactScore(finder.ranked[i]) <= ExactScore(finder.ranked[j])

\* C25: the search radius never exceeds 5000 m, and below that it is half the
\* users' distance plus one kilometre, cut to whole metres.
C25_RadiusCapped ==
    finder.pc \notin {"none", "zone"} =>
        LET d == Abs(finder.lat2 - finder.lat1)   \* half-metres: d / 4 m is half the way
            r == finder.zone.radius_meters
        IN /\ r <= 5000
           /\ d + 4000 < 4 * 5000 => (4 * r <= d + 4000 /\ d + 4000 < 4 * (r + 1))
           /\ d + 4000 >= 4 * 5000 => r = 5000
           /\ finder.zone.center_x2 = finder.lat1 + finder.lat2

\* twenty kilometres apart: the radius would be 11 km and is 5000 m
C25_Witness ==
    /\ finder.pc = "done"
    /\ Abs(finder.lat2 - finder.lat1) = 40000
    /\ finder.zone.radius_meters = 5000

\* ---- the swipe lifecycle, continued ----------------------------------------
\* C26: when like(A,B) and like(B,A) are the pair's first swipes, then once
\* both have been answered, normally or with an error, and however their
\* statements interleaved, a Match row of the pair exists.
C26_FirstLikesLeaveMatch ==
    [][ (/\ Completed
         /\ hist'.op = "swipe" /\ hist'.type = "like" /\ hist'.ab = "none"
         /\ hist'.from # hist'.to
         /\ hist.op = "swipe" /\ hist.type = "like" /\ hist.ab = "none"
         /\ hist.from = hist'.to /\ hist.to = hist'.from
         /\ \A p \in Procs : pc'[p] = "idle")
        => PairRowsIn(matches', hist'.from, hist'.to) # {} ]_vars

\* C27: the lookup create_swipe makes before it creates a Match on a mutual
\* like, and before it deactivates one on a dislike, returns a match exactly
\* when an active Match row of the unordered pair {actor, target} exists.
C27_LookupFindsPairsMatch ==
    [][ \A p \in Procs :
          (pc[p] \in {"match_lookup", "dislike_lookup"} /\ pc'[p] # pc[p])
          => /\ (get_match_between_users(req[p].from, req[p].to) # NoId)
                  <=> (ActiveRowsIn(matches, req[p].from, req[p].to) # {})
             /\ pc[p] = "match_lookup"
                  => ((pc'[p] = "match_insert")
                       <=> (ActiveRowsIn(matches, req[p].from, req[p].to) = {})) ]_vars

\* C28: a Match row is inserted only in a state where the swipes in both
\* directions of its pair are likes, however concurrent recordSwipe calls
\* interleave; and a dislike neither creates a Match nor returns one.
C28_MatchOnlyOnMutualLike ==
    [][ /\ \A m \in matches' :
              (\A old \in matches : old.id # m.id)
              => /\ SwipeTypeOf(m.user_one_id, m.user_two_id) = "like"
                 /\ SwipeTypeOf(m.user_two_id, m.user_one_id) = "like"
        /\ (Completed /\ hist'.op = "swipe" /\ hist'.type = "dislike")
              => (hist'.match_id = NoId /\ matches' = matches) ]_vars

\* C29: no step deletes a Match row or turns an inactive one active: once a
\* Match has been deactivated, the row of its pair is there, inactive, in
\* every later state.
C29_DeactivationIsFinal ==
    [][ \A m \in matches :
          \E m2 \in matches' :
              /\ m2.id = m.id
              /\ m2.user_one_id = m.user_one_id /\ m2.user_two_id = m.user_two_id
              /\ ~m.is_active => ~m2.is_active ]_vars

\* the pair was unmatched and a mutual like of the pair was recorded since:
\* the row is the old one, still inactive
C29_Witness ==
    /\ hist.op = "swipe" /\ hist.type = "like" /\ hist.m = "inactive"
    /\ SwipeTypeOf(hist.to, hist.from) = "like"
    /\ \E m \in PairRows(hist.from, hist.to) : m.id = 1 /\ ~m.is_active
    /\ Cardinality(PairRows(hist.from, hist.to)) = 1

\* the swipe rows of table S from f towards t
SwipeRowsIn(S, f, t) == {s \in S : s.from_user_id = f /\ s.to_user_id = t}

\* C30: create_swipe commits the swipe before the Match step: when that step
\* fails, the requested disposition is stored all the same and the caller
\* gets the error; the identical swipe sent again finds its disposition
\* stored, changes nothing and returns the swipe without a match.
C30_SwipeSurvivesMatchFailure ==
    [][ /\ \A p \in Procs :
              (pc[p] = "swipe_write" /\ pc'[p] \notin {"swipe_write", "idle"})
              => \E s \in SwipeRowsIn(swipes', req[p].from, req[p].to) :
                     s.type = req[p].type /\ s.id = loc'[p].swipe_id
        /\ \A p \in Procs :
              (pc[p] = "match_insert" /\ pc'[p] = "idle" /\ matches' = matches)
              => /\ hist'.kind = "e500"
                 /\ \E s \in SwipeRowsIn(swipes', req[p].from, req[p].to) :
                        s.type = req[p].type
        /\ (/\ calls' = calls + 1
            /\ hist.op = "swipe" /\ hist.kind = "e500" /\ hist.detail = "unique_match"
            /\ hist.solo
            /\ Received = [op |-> "swipe", from |-> hist.from, to |-> hist.to,
                           type |-> hist.type])
           => (/\ pc' = pc
               /\ hist'.kind = "ok" /\ hist'.match_id = NoId
               /\ hist'.ab = hist.type
               /\ swipes' = swipes /\ matches' = matches) ]_vars

\* a like was overwritten onto a dislike, the Match insert that followed was
\* refused, and the like is stored
C30_Witness ==
    /\ hist.op = "swipe" /\ hist.type = "like"
    /\ hist.kind = "e500" /\ hist.detail = "unique_match"
    /\ hist.ab = "dislike"
    /\ SwipeTypeOf(hist.from, hist.to) = "like"
    /\ calls < MaxMatchedCalls

====
